---- MODULE Spec2Model ----
(***************************************************************************)
(* A model of marshmallow's class registry (class_registry.py) and of its  *)
(* ValidationError carrier (exceptions.py).                                *)
(*                                                                         *)
(* The registry is the module-level dict _registry, from a string key to   *)
(* a list of class objects.  A class object is modelled by its identity    *)
(* and its __module__ attribute, the only attribute register reads.        *)
(***************************************************************************)
EXTENDS Naturals, Sequences, FiniteSets, TLC

\* ------------------------------------------------------------------ bounds
\* Class objects per module.
MaxClassId == 2
\* register calls in one run (the qualified-key lists grow with every call).
MaxRegs == 3
\* Messages in a list payload.
MaxMsgs == 2

\* ------------------------------------------------------------------ inputs
ModuleNames == {"app.a", "app.b"}
ClassNames == {"Foo", "Bar"}

\* A schema class object: its identity and its __module__.
SchemaType == [id : 1..MaxClassId, module : ModuleNames]
NoClass == [id |-> 0, module |-> ""]

\* fullpath = ".".join([module, classname])
FullPath(module, classname) == module \o "." \o classname

QualifiedKeys == {FullPath(m, n) : m \in ModuleNames, n \in ClassNames}
\* The names get_class is asked for: short names, qualified names, a module
\* path and a name nothing registers.
LookupKeys == ClassNames \cup QualifiedKeys \cup {"app.a", "NeverRegistered"}

VARIABLES
    registry,   \* _registry: key -> list of class objects
    calls,      \* the register calls made so far, in order: <<classname, cls>>
    last        \* the call that produced this state, with what it returned or raised

regvars == <<registry, calls, last>>

VARIABLES
    ctor,       \* the arguments the ValidationError was constructed with
    err,        \* the ValidationError object: its attributes
    ret         \* the method called last on err, with what it returned or raised

errvars == <<ctor, err, ret>>

VARIABLES
    aggregate,  \* the aggregator's merged mapping of the failures collected so far
    collected   \* the constructor arguments of the errors collected, in order

aggvars == <<aggregate, collected>>

VARIABLES
    pc,         \* per thread: the statement of register it runs next
    targs,      \* per thread: the <<classname, cls>> it calls register with
    uselock,    \* whether the callers hold one lock around each register call
    lock        \* the thread holding that lock, 0 when it is free

thrvars == <<pc, targs, uselock, lock>>
vars == <<registry, calls, last, ctor, err, ret, aggregate, collected,
          pc, targs, uselock, lock>>

\* ------------------------------------------------------------ dict helpers
EmptyDict == [k \in {} |-> <<>>]
DictSet(d, k, v) == [x \in (DOMAIN d) \cup {k} |-> IF x = k THEN v ELSE d[x]]
DictDel(d, k) == [x \in (DOMAIN d) \ {k} |-> d[x]]

\* any(each.__module__ == module for each in classes)
AnyInModule(classes, module) ==
    \E i \in 1..Len(classes) : classes[i].module = module

\* ---------------------------------------------------------------- register
\* A short-key part that appends a class of another module to the entry.
RegisterShort_append(reg, classname, cls) ==
    IF classname \in DOMAIN reg /\ AnyInModule(reg[classname], cls.module)
    THEN DictDel(reg, classname)
    ELSE IF classname \notin DOMAIN reg
         THEN DictSet(reg, classname, <<cls>>)
         ELSE DictSet(reg, classname, Append(reg[classname], cls))

\* A short-key part that appends to the entry without looking at modules.
RegisterShort_appendAlways(reg, classname, cls) ==
    IF classname \in DOMAIN reg
    THEN DictSet(reg, classname, Append(reg[classname], cls))
    ELSE DictSet(reg, classname, <<cls>>)

\* A short-key part that empties the entry instead of deleting it.
RegisterShort_emptyList(reg, classname, cls) ==
    IF classname \in DOMAIN reg /\ AnyInModule(reg[classname], cls.module)
    THEN DictSet(reg, classname, <<>>)
    ELSE IF classname \notin DOMAIN reg
         THEN DictSet(reg, classname, <<cls>>)
         ELSE reg

\* A short-key part that clears the whole dict on a same-module registration.
RegisterShort_clearAll(reg, classname, cls) ==
    IF classname \in DOMAIN reg /\ AnyInModule(reg[classname], cls.module)
    THEN EmptyDict
    ELSE IF classname \notin DOMAIN reg
         THEN DictSet(reg, classname, <<cls>>)
         ELSE reg

\* The short-key part of register: the dict after lines 33-38.
RegisterShort(reg, classname, cls) ==
    IF classname \in DOMAIN reg /\ AnyInModule(reg[classname], cls.module)
    THEN DictDel(reg, classname)
    ELSE IF classname \notin DOMAIN reg
         THEN DictSet(reg, classname, <<cls>>)
         ELSE reg

\* A qualified-key part that replaces the entry instead of appending to it.
RegisterFull_replace(reg, classname, cls) ==
    DictSet(reg, FullPath(cls.module, classname), <<cls>>)

\* A qualified-key part that files the class under its module path alone.
RegisterFull_moduleKey(reg, classname, cls) ==
    IF cls.module \notin DOMAIN reg
    THEN DictSet(reg, cls.module, <<cls>>)
    ELSE DictSet(reg, cls.module, Append(reg[cls.module], cls))

\* The qualified-key part of register: the dict after lines 40-43.
RegisterFull(reg, classname, cls) ==
    LET fullpath == FullPath(cls.module, classname)
    IN  IF fullpath \notin DOMAIN reg
        THEN DictSet(reg, fullpath, <<cls>>)
        ELSE DictSet(reg, fullpath, Append(reg[fullpath], cls))

\* _registry after register(classname, cls) ran on reg.
Register(reg, classname, cls) ==
    RegisterFull(RegisterShort(reg, classname, cls), classname, cls)

\* --------------------------------------------------------------- get_class
\* What a call returns or raises.  Both failures are RegistryError; the
\* kind tells the two messages apart.
Returned(c) == [kind |-> "class", cls |-> c, classes |-> <<>>]
ReturnedAll(cs) == [kind |-> "list", cls |-> NoClass, classes |-> cs]
Raised(what) == [kind |-> what, cls |-> NoClass, classes |-> <<>>]
NoResult == [kind |-> "none", cls |-> NoClass, classes |-> <<>>]

\* A get_class that hands out the list whenever all is set.
GetClass_listWhenAll(reg, classname, all) ==
    IF classname \notin DOMAIN reg
    THEN Raised("NotFound")
    ELSE IF all
         THEN ReturnedAll(reg[classname])
         ELSE IF Len(reg[classname]) > 1
              THEN Raised("Ambiguous")
              ELSE Returned(reg[classname][1])

GetClass(reg, classname, all) ==
    IF classname \notin DOMAIN reg
    THEN Raised("NotFound")
    ELSE LET classes == reg[classname]
         IN  IF Len(classes) > 1
             THEN IF all THEN ReturnedAll(reg[classname]) ELSE Raised("Ambiguous")
             ELSE IF Len(classes) = 0
                  THEN Raised("IndexError")
                  ELSE Returned(reg[classname][1])

\* ----------------------------------------------------------------- actions
RegistryInit ==
    /\ registry = EmptyDict
    /\ calls = <<>>
    /\ last = [op |-> "init", classname |-> "", cls |-> NoClass, all |-> FALSE,
               result |-> NoResult]

register(classname, cls) ==
    /\ Len(calls) < MaxRegs
    /\ registry' = Register(registry, classname, cls)
    /\ calls' = Append(calls, <<classname, cls>>)
    /\ last' = [op |-> "register", classname |-> classname, cls |-> cls,
                all |-> FALSE, result |-> NoResult]
    /\ UNCHANGED <<errvars, aggvars, thrvars>>

\* A get_class that takes the entry out of the dict as it reads it.
get_class_pop(classname, all) ==
    /\ last' = [op |-> "get_class", classname |-> classname, cls |-> NoClass,
                all |-> all, result |-> GetClass(registry, classname, all)]
    /\ registry' = DictDel(registry, classname)
    /\ UNCHANGED <<calls, errvars, aggvars, thrvars>>

get_class(classname, all) ==
    /\ last' = [op |-> "get_class", classname |-> classname, cls |-> NoClass,
                all |-> all, result |-> GetClass(registry, classname, all)]
    /\ UNCHANGED <<registry, calls, errvars, aggvars, thrvars>>

DoRegister == \E classname \in ClassNames, cls \in SchemaType : register(classname, cls)
DoGetClass == \E classname \in LookupKeys, all \in BOOLEAN : get_class(classname, all)

\* ======================================================= ValidationError
\* Python values, tagged with their type: t is the type's name, s the text
\* of a str or bytes, l the items of a list, d the items of a dict as
\* <<key, value>> pairs.
PyNone == [t |-> "None", s |-> "", l |-> <<>>, d |-> {}]
Str(s) == [t |-> "str", s |-> s, l |-> <<>>, d |-> {}]
Bytes(s) == [t |-> "bytes", s |-> s, l |-> <<>>, d |-> {}]
List(l) == [t |-> "list", s |-> "", l |-> l, d |-> {}]
Dict(d) == [t |-> "dict", s |-> "", l |-> <<>>, d |-> d]

\* Key used for schema-level validation errors.
SCHEMA == "_schema"

\* isinstance(v, (str, bytes)) and isinstance(v, dict)
IsStrOrBytes(v) == v.t \in {"str", "bytes"}
IsDict(v) == v.t = "dict"
\* type(v).__name__
TypeName(v) == IF v.t = "None" THEN "NoneType" ELSE v.t

\* ------------------------------------------------------------------ inputs
Texts == {Str("bad value"), Str("x"), Bytes("x")}
SeqsUpTo(S, n) == UNION {[1..k -> S] : k \in 0..n}
ListPayloads == {List(l) : l \in SeqsUpTo({Str("bad value"), Str("must be positive")}, MaxMsgs)}
PayloadKeys == {"age", SCHEMA}
PayloadValues == {List(<<Str("must be positive")>>), List(<<Str("x"), Str("y")>>)}
IsFunctional(d) == \A p \in d, q \in d : p[1] = q[1] => p = q
DictPayloads == {Dict(d) : d \in {r \in SUBSET (PayloadKeys \X PayloadValues) : IsFunctional(r)}}
Payloads == Texts \cup ListPayloads \cup DictPayloads
FieldNames == {SCHEMA, "name", "age"}
RawInputs == {PyNone, Dict({<<"age", Str("-1")>>})}
ValidOutputs == {PyNone, Dict({<<"name", Str("Ann")>>})}
Kwargs == {Dict({}), Dict({<<"code", Str("E1")>>})}

\* ---------------------------------------------------------------- __init__
\* An __init__ that stores the message as it came.
ValidationError_init_noWrap(message, field_name, data, valid_data, kwargs) ==
    [messages |-> message,
     field_name |-> SCHEMA,
     data |-> IF valid_data # PyNone THEN valid_data ELSE data,
     valid_data |-> IF valid_data # PyNone THEN data ELSE PyNone,
     kwargs |-> Dict({}),
     args |-> <<"Unexpected Error">>]

\* The attributes of the object ValidationError(message, field_name, data,
\* valid_data, **kwargs) builds.
ValidationError_init(message, field_name, data, valid_data, kwargs) ==
    [messages |-> IF IsStrOrBytes(message) THEN List(<<message>>) ELSE message,
     field_name |-> SCHEMA,
     data |-> IF valid_data # PyNone THEN valid_data ELSE data,
     valid_data |-> IF valid_data # PyNone THEN data ELSE PyNone,
     kwargs |-> Dict({}),
     args |-> <<"Unexpected Error">>]

\* ----------------------------------------------------------------- methods
MethodReturned(v) == [kind |-> "return", value |-> v, text |-> ""]
MethodRaised(what, text) == [kind |-> what, value |-> PyNone, text |-> text]

\* A normalized_messages that always files the messages under the field name.
normalized_messages_alwaysWrap(self) ==
    MethodReturned(Dict({<<self.field_name, self.messages>>}))

normalized_messages(self) ==
    IF self.field_name = SCHEMA /\ IsDict(self.messages)
    THEN MethodReturned(self.messages)
    ELSE MethodReturned(Dict({<<self.field_name, self.messages>>}))

\* A messages_dict without its type check.
messages_dict_unchecked(self) == MethodReturned(self.messages)

messages_dict(self) ==
    IF ~IsDict(self.messages)
    THEN MethodRaised("TypeError",
             "cannot access 'messages_dict' when 'messages' is of type "
                 \o TypeName(self.messages))
    ELSE MethodReturned(self.messages)

\* ----------------------------------------------------------------- actions
NoCtor == [message |-> PyNone, field_name |-> "", data |-> PyNone,
           valid_data |-> PyNone, kwargs |-> Dict({})]
NoError == [messages |-> PyNone, field_name |-> "", data |-> PyNone,
            valid_data |-> PyNone, kwargs |-> Dict({}), args |-> <<>>]
NoCall == [op |-> "none", kind |-> "none", value |-> PyNone, text |-> ""]
CallResult(op, r) == [op |-> op, kind |-> r.kind, value |-> r.value, text |-> r.text]

ErrorInit ==
    /\ ctor = NoCtor
    /\ err = NoError
    /\ ret = NoCall

\* A normalized_messages call that stores its result back on the object.
CallNormalizedMessages_inPlace ==
    /\ err # NoError
    /\ ret' = CallResult("normalized_messages", normalized_messages(err))
    /\ err' = [err EXCEPT !.messages = normalized_messages(err).value]
    /\ UNCHANGED <<ctor, regvars, aggvars, thrvars>>

\* The one construction of the error: __init__ runs once per object.
Construct(message, field_name, data, valid_data, kwargs) ==
    /\ err = NoError
    /\ ctor' = [message |-> message, field_name |-> field_name, data |-> data,
                valid_data |-> valid_data, kwargs |-> kwargs]
    /\ err' = ValidationError_init(message, field_name, data, valid_data, kwargs)
    /\ ret' = NoCall
    /\ UNCHANGED <<regvars, aggvars, thrvars>>

CallNormalizedMessages ==
    /\ err # NoError
    /\ ret' = CallResult("normalized_messages", normalized_messages(err))
    /\ UNCHANGED <<ctor, err, regvars, aggvars, thrvars>>

CallMessagesDict ==
    /\ err # NoError
    /\ ret' = CallResult("messages_dict", messages_dict(err))
    /\ UNCHANGED <<ctor, err, regvars, aggvars, thrvars>>

DoConstruct ==
    \E message \in Payloads, field_name \in FieldNames, data \in RawInputs,
       valid_data \in ValidOutputs, kwargs \in Kwargs :
        Construct(message, field_name, data, valid_data, kwargs)

\* ============================================================ aggregation
\* The validation pass that collects failures: it takes each error's
\* normalized_messages() and merges it, by key, into one mapping.
\* Failures of one pass.
MaxErrors == 2

DictKeys(v) == {p[1] : p \in v.d}
DictGet(v, k) == (CHOOSE p \in v.d : p[1] = k)[2]

\* Two message payloads under one key, both kept: lists are joined, dicts
\* are merged key by key, a list met by a dict goes under the dict's SCHEMA key.
RECURSIVE MergeErrors(_, _)
MergeErrors(a, b) ==
    IF a.t = "list" /\ b.t = "list" THEN List(a.l \o b.l)
    ELSE IF a.t = "list" /\ b.t = "dict"
         THEN MergeErrors(Dict({<<SCHEMA, a>>}), b)
    ELSE IF a.t = "dict" /\ b.t = "list"
         THEN MergeErrors(a, Dict({<<SCHEMA, b>>}))
    ELSE Dict({<<k, IF k \in DictKeys(a) /\ k \in DictKeys(b)
                    THEN MergeErrors(DictGet(a, k), DictGet(b, k))
                    ELSE IF k \in DictKeys(a) THEN DictGet(a, k)
                    ELSE DictGet(b, k)>> : k \in DictKeys(a) \cup DictKeys(b)})

FailurePayloads ==
    {Str("bad value"), List(<<Str("must be positive")>>),
     Dict({<<"age", List(<<Str("must be positive")>>)>>})}

AggregateInit ==
    /\ aggregate = Dict({})
    /\ collected = <<>>

\* A validation rule fails: the error is constructed.
DoConstructFailure ==
    \E message \in FailurePayloads, field_name \in FieldNames :
        Construct(message, field_name, PyNone, PyNone, Dict({}))

\* The aggregator merges the error's normalized_messages() into its mapping
\* and goes on to the next rule.
Collect ==
    /\ err # NoError
    /\ Len(collected) < MaxErrors
    /\ aggregate' = MergeErrors(aggregate, normalized_messages(err).value)
    /\ collected' = Append(collected, ctor)
    /\ ctor' = NoCtor
    /\ err' = NoError
    /\ ret' = NoCall
    /\ UNCHANGED <<regvars, thrvars>>

\* ================================================================ threads
\* Two threads, each in one register(classname, cls) call, interleaved
\* statement by statement.  pc names the line of class_registry.py the
\* thread runs next.  With uselock the callers hold one lock around the
\* whole call.
Threads == {1, 2}
ThreadsIdle ==
    /\ pc = <<"idle", "idle">>
    /\ targs = <<<<"", NoClass>>, <<"", NoClass>>>>
    /\ uselock = FALSE
    /\ lock = 0

\* The dict the threads start from: empty, or holding one earlier registration.
EarlierCalls == {<<>>, <<<<"Foo", [id |-> 1, module |-> "app.a"]>>>>}
RegistryBefore ==
    IF calls = <<>> THEN EmptyDict
    ELSE Register(EmptyDict, calls[1][1], calls[1][2])

RegistryStart ==
    /\ calls \in EarlierCalls
    /\ registry = RegistryBefore
    /\ last = [op |-> "init", classname |-> "", cls |-> NoClass, all |-> FALSE,
               result |-> NoResult]

ThreadsStart ==
    /\ pc = <<"start", "start">>
    /\ targs \in [Threads -> ClassNames \X SchemaType]
    /\ uselock \in BOOLEAN
    /\ lock = 0

Classname(t) == targs[t][1]
Cls(t) == targs[t][2]
Goto(t, line) == pc' = [pc EXCEPT ![t] = line]
Frame == UNCHANGED <<calls, last, errvars, aggvars, targs, uselock>>
\* An exception leaves the call; a lock held around the call is released.
RaiseKeyError(t) ==
    /\ Goto(t, "KeyError")
    /\ lock' = IF lock = t THEN 0 ELSE lock
    /\ UNCHANGED registry

\* The caller enters the call, taking the lock first when one is used.
Enter(t) ==
    /\ pc[t] = "start"
    /\ IF uselock THEN lock = 0 /\ lock' = t ELSE UNCHANGED lock
    /\ Goto(t, "l30")
    /\ UNCHANGED registry /\ Frame

\* module = cls.__module__ ; fullpath = ".".join([module, classname])
Stmt30(t) ==
    /\ pc[t] = "l30"
    /\ Goto(t, "l33")
    /\ UNCHANGED <<registry, lock>> /\ Frame

\* if classname in _registry and any(...):
Stmt33(t) ==
    /\ pc[t] = "l33"
    /\ IF Classname(t) \in DOMAIN registry
            /\ AnyInModule(registry[Classname(t)], Cls(t).module)
       THEN Goto(t, "l36")
       ELSE Goto(t, "l37")
    /\ UNCHANGED <<registry, lock>> /\ Frame

\* del _registry[classname]
Stmt36(t) ==
    /\ pc[t] = "l36"
    /\ IF Classname(t) \in DOMAIN registry
       THEN /\ registry' = DictDel(registry, Classname(t))
            /\ Goto(t, "l40")
            /\ UNCHANGED lock
       ELSE RaiseKeyError(t)
    /\ Frame

\* elif classname not in _registry:
Stmt37(t) ==
    /\ pc[t] = "l37"
    /\ IF Classname(t) \notin DOMAIN registry
       THEN Goto(t, "l38")
       ELSE Goto(t, "l40")
    /\ UNCHANGED <<registry, lock>> /\ Frame

\* _registry[classname] = [cls]
Stmt38(t) ==
    /\ pc[t] = "l38"
    /\ registry' = DictSet(registry, Classname(t), <<Cls(t)>>)
    /\ Goto(t, "l40")
    /\ UNCHANGED lock /\ Frame

\* if fullpath not in _registry:
Stmt40(t) ==
    /\ pc[t] = "l40"
    /\ IF FullPath(Cls(t).module, Classname(t)) \notin DOMAIN registry
       THEN Goto(t, "l41")
       ELSE Goto(t, "l43")
    /\ UNCHANGED <<registry, lock>> /\ Frame

\* _registry[fullpath] = [cls]
Stmt41(t) ==
    /\ pc[t] = "l41"
    /\ registry' = DictSet(registry, FullPath(Cls(t).module, Classname(t)), <<Cls(t)>>)
    /\ Goto(t, "l44")
    /\ UNCHANGED lock /\ Frame

\* An else branch that stores [cls] over the entry.
Stmt43_replace(t) ==
    /\ pc[t] = "l43"
    /\ registry' = DictSet(registry, FullPath(Cls(t).module, Classname(t)), <<Cls(t)>>)
    /\ Goto(t, "l44")
    /\ UNCHANGED lock /\ Frame

\* _registry[fullpath].append(cls)
Stmt43(t) ==
    /\ pc[t] = "l43"
    /\ LET fullpath == FullPath(Cls(t).module, Classname(t))
       IN  IF fullpath \in DOMAIN registry
           THEN /\ registry' = DictSet(registry, fullpath, Append(registry[fullpath], Cls(t)))
                /\ Goto(t, "l44")
                /\ UNCHANGED lock
           ELSE RaiseKeyError(t)
    /\ Frame

\* return None; the caller releases the lock it took.
Stmt44(t) ==
    /\ pc[t] = "l44"
    /\ Goto(t, "done")
    /\ lock' = IF lock = t THEN 0 ELSE lock
    /\ UNCHANGED registry /\ Frame

ThreadStep(t) ==
    \/ Enter(t) \/ Stmt30(t) \/ Stmt33(t) \/ Stmt36(t) \/ Stmt37(t)
    \/ Stmt38(t) \/ Stmt40(t) \/ Stmt41(t) \/ Stmt43(t) \/ Stmt44(t)

\* ---------------------------------------------------------- specifications
Init == RegistryInit /\ ErrorInit /\ AggregateInit /\ ThreadsIdle

\* The registry and its callers.
Next == DoRegister \/ DoGetClass
Spec == Init /\ [][Next]_vars

\* A ValidationError and its callers.
NextError == DoConstruct \/ CallNormalizedMessages \/ CallMessagesDict
SpecError == Init /\ [][NextError]_vars

\* Two threads registering at once, with or without a lock around the call.
InitThreads == RegistryStart /\ ErrorInit /\ AggregateInit /\ ThreadsStart
NextThreads == \E t \in Threads : ThreadStep(t)
SpecThreads == InitThreads /\ [][NextThreads]_vars

\* A validation pass that collects the errors of several failing rules.
NextAggregate == DoConstructFailure \/ Collect
SpecAggregate == Init /\ [][NextAggregate]_vars

\* ------------------------------------------------- registry: derived views
\* The class objects of a sequence of register calls.
TypesOf(cs) == [i \in 1..Len(cs) |-> cs[i][2]]
\* The register calls made under short name n from module m, in call order.
CallsUnder(m, n) ==
    LET Hit(c) == c[1] = n /\ c[2].module = m IN SelectSeq(calls, Hit)
\* The dict the first k register calls build, starting from the empty one.
RECURSIVE RegistryAfter(_)
RegistryAfter(k) ==
    IF k = 0 THEN EmptyDict
    ELSE Register(RegistryAfter(k - 1), calls[k][1], calls[k][2])
UsedShortNames == {calls[i][1] : i \in 1..Len(calls)}
ProducedQualified == {FullPath(calls[i][2].module, calls[i][1]) : i \in 1..Len(calls)}

\* A step that is one register call: it adds the call to calls and leaves
\* its arguments in last.
RegisterStep ==
    /\ last'.op = "register"
    /\ calls' = Append(calls, <<last'.classname, last'.cls>>)

\* The dict is what the register calls built, and nothing else touched it.
RegistryIsBuiltByCalls == registry = RegistryAfter(Len(calls))

\* ---------------------------------------------------------------- claims
\* C1: whenever register(n, t2) runs in a state whose short-key entry for n
\* holds a class of t2's module, the short-key entry afterwards is exactly
\* [t2], and a lookup of n right after returns t2.
C1_SameLocationSupersedes ==
    [][\A n \in ClassNames, t2 \in SchemaType :
        (/\ register(n, t2)
         /\ n \in DOMAIN registry
         /\ AnyInModule(registry[n], t2.module))
        => (/\ n \in DOMAIN registry'
            /\ registry'[n] = <<t2>>
            /\ GetClass(registry', n, FALSE) = Returned(t2))]_vars

\* C2: with no entry for n, registering t1 from module A and then a distinct
\* t2 from a distinct module B under n makes get_class(n) raise the
\* multiple-classes error and get_class(n, all=True) return [t1, t2].
C2_TwoLocationsAmbiguous ==
    \A i \in 1..Len(calls) :
        (/\ i + 1 = Len(calls)
         /\ calls[i][1] = calls[i + 1][1]
         /\ calls[i][2] # calls[i + 1][2]
         /\ calls[i][2].module # calls[i + 1][2].module
         /\ calls[i][1] \notin DOMAIN RegistryAfter(i - 1))
        => LET n == calls[i][1]
               t1 == calls[i][2]
               t2 == calls[i + 1][2]
           IN  /\ GetClass(registry, n, FALSE) = Raised("Ambiguous")
               /\ GetClass(registry, n, TRUE) = ReturnedAll(<<t1, t2>>)
               /\ (last.op = "get_class" /\ last.classname = n)
                    => last.result = IF last.all THEN ReturnedAll(<<t1, t2>>)
                                     ELSE Raised("Ambiguous")

\* C3: the entry of every qualified key module.name is exactly the classes
\* passed to register under that name from that module, in call order, and
\* get_class(qualified, all=True) returns that list once it holds two.
C3_QualifiedAppendOnly ==
    \A m \in ModuleNames, n \in ClassNames :
        LET q == FullPath(m, n)
            expected == TypesOf(CallsUnder(m, n))
        IN  IF expected = <<>>
            THEN q \notin DOMAIN registry
            ELSE /\ q \in DOMAIN registry
                 /\ registry[q] = expected
                 /\ Len(expected) > 1 => GetClass(registry, q, TRUE) = ReturnedAll(expected)

C3_Witness ==
    \E m \in ModuleNames, n \in ClassNames :
        /\ Len(CallsUnder(m, n)) = 2
        /\ CallsUnder(m, n)[1][2] # CallsUnder(m, n)[2][2]
        /\ last.op = "get_class" /\ last.classname = FullPath(m, n) /\ last.all
        /\ last.result = ReturnedAll(TypesOf(CallsUnder(m, n)))

\* C4: get_class raises the not-found error, whatever all is, for every key
\* that no register call used as its short name or produced as its
\* qualified key.
C4_NeverRegisteredNotFound ==
    \A k \in LookupKeys :
        (k \notin UsedShortNames /\ k \notin ProducedQualified)
        => /\ \A all \in BOOLEAN : GetClass(registry, k, all) = Raised("NotFound")
           /\ (last.op = "get_class" /\ last.classname = k)
                => last.result = Raised("NotFound")

C4_Witness ==
    /\ Len(calls) = MaxRegs
    /\ last.op = "get_class"
    /\ last.classname \notin UsedShortNames \cup ProducedQualified
    /\ last.result = Raised("NotFound")

\* C5: for a key that is present, get_class returns the one candidate as a
\* bare class when there is exactly one (whatever all is), raises the
\* multiple-classes error when there are more and all is not set, and
\* returns the stored list in stored order when there are more and all is set.
C5_LookupByCandidateCount ==
    (last.op = "get_class" /\ last.classname \in DOMAIN registry)
    => LET classes == registry[last.classname]
       IN  /\ Len(classes) = 1 => last.result = Returned(classes[1])
           /\ (Len(classes) > 1 /\ ~last.all) => last.result = Raised("Ambiguous")
           /\ (Len(classes) > 1 /\ last.all) => last.result = ReturnedAll(classes)

C5_Witness ==
    /\ last.op = "get_class" /\ last.all
    /\ last.classname \in DOMAIN registry
    /\ Len(registry[last.classname]) = 1
    /\ last.result.kind = "class"
    /\ \E k \in DOMAIN registry : Len(registry[k]) > 1

\* C6: get_class leaves the registry as it found it, every key and every
\* list, whether it returns a class, returns a list or raises.
C6_LookupNoSideEffects ==
    [][last'.op = "get_class" => registry' = registry]_vars

C6_Witness ==
    /\ last.op = "get_class"
    /\ last.result.kind = "Ambiguous"
    /\ Cardinality(DOMAIN registry) >= 2

\* C7: an error constructed with a field name k other than SCHEMA stores k
\* as its field name, and normalized_messages() returns {k: payload}, the
\* payload being [s] for a string s and the list or dict itself otherwise.
C7_FieldNameKept ==
    (err # NoError /\ ctor.field_name # SCHEMA /\ ctor.message.t # "bytes")
    => LET payload == IF ctor.message.t = "str" THEN List(<<ctor.message>>)
                      ELSE ctor.message
       IN  /\ err.field_name = ctor.field_name
           /\ normalized_messages(err)
                = MethodReturned(Dict({<<ctor.field_name, payload>>}))
           /\ ret.op = "normalized_messages"
                => ret.value = Dict({<<ctor.field_name, payload>>})

\* C8: an error built from a string s with the default field name has
\* normalized_messages() == {SCHEMA: [s]}; built from a list with the default
\* field name it has {SCHEMA: list}, the list not wrapped again.
C8_StringWrappedOnce ==
    (ret.op = "normalized_messages" /\ ctor.field_name = SCHEMA)
    => /\ ctor.message.t = "str"
            => /\ err.messages = List(<<ctor.message>>)
               /\ ret.kind = "return"
               /\ ret.value = Dict({<<SCHEMA, List(<<ctor.message>>)>>})
       /\ ctor.message.t = "list"
            => /\ ret.kind = "return"
               /\ ret.value = Dict({<<SCHEMA, ctor.message>>})

C8_Witness ==
    /\ ret.op = "normalized_messages"
    /\ ctor.field_name = SCHEMA
    /\ ctor.message = Str("bad value")
    /\ ret.value = Dict({<<SCHEMA, List(<<Str("bad value")>>)>>})

\* C9: for an error whose field name is SCHEMA and whose payload is a dict,
\* normalized_messages() returns that dict, same keys and same values, not
\* filed under SCHEMA.
C9_MappingPassesThrough ==
    (ret.op = "normalized_messages" /\ ctor.field_name = SCHEMA
        /\ err.field_name = SCHEMA /\ ctor.message.t = "dict")
    => /\ ret.kind = "return"
       /\ ret.value = ctor.message
       /\ ret.value = err.messages

C9_Witness ==
    /\ ret.op = "normalized_messages"
    /\ ctor.field_name = SCHEMA /\ err.field_name = SCHEMA
    /\ ctor.message = Dict({<<"age", List(<<Str("must be positive")>>)>>})
    /\ ret.value = Dict({<<"age", List(<<Str("must be positive")>>)>>})

\* C10: messages_dict returns the stored payload exactly when the payload
\* is a dict; for a string or list payload it raises TypeError and returns
\* nothing, whatever the field name.
C10_MessagesDictOnlyForMapping ==
    ret.op = "messages_dict"
    => /\ ctor.message.t = "dict"
            => (ret.kind = "return" /\ ret.value = err.messages
                    /\ ret.value = ctor.message)
       /\ ctor.message.t \in {"str", "list"}
            => (ret.kind = "TypeError" /\ ret.value = PyNone)
       /\ ret.kind = "return" => ctor.message.t = "dict"

C10_Witness ==
    /\ ret.op = "messages_dict"
    /\ ctor.message = Str("x")
    /\ ctor.field_name = "name"
    /\ ret.kind = "TypeError"
    /\ ret.text = "cannot access 'messages_dict' when 'messages' is of type list"

\* C11: the raw input and the valid output are stored apart: after
\* construction the error's data is the data argument (None when omitted)
\* and its valid_data is the valid_data argument (None when omitted), for
\* every combination of the two being given or omitted.
C11_DataAndValidDataApart ==
    err # NoError
    => /\ err.data = ctor.data
       /\ err.valid_data = ctor.valid_data

\* C13: once register(n, t) has run with t of module L, the short key n and
\* the qualified key L.n stay in the registry, so get_class(n, all=True) and
\* get_class(L.n, all=True) never raise the not-found error.
C13_RegisteredNamesPersist ==
    \A i \in 1..Len(calls) :
        LET n == calls[i][1]
            q == FullPath(calls[i][2].module, calls[i][1])
        IN  /\ n \in DOMAIN registry
            /\ q \in DOMAIN registry
            /\ GetClass(registry, n, TRUE).kind # "NotFound"
            /\ GetClass(registry, q, TRUE).kind # "NotFound"
            /\ (last.op = "get_class" /\ last.classname \in {n, q})
                 => last.result.kind # "NotFound"

\* C14: when register(n, t) runs in a state whose short-key entry for n
\* exists and holds no class of t's module, the short-key entry stays as it
\* was, t is not added to it, and the only key that changes is the
\* qualified key of t's module and n.
C14_OtherLocationLeavesShortKey ==
    [][LET n == last'.classname
           t == last'.cls
       IN
        (/\ RegisterStep
         /\ n \in DOMAIN registry
         /\ ~AnyInModule(registry[n], t.module))
        => (/\ n \in DOMAIN registry'
            /\ registry'[n] = registry[n]
            /\ \A i \in 1..Len(registry'[n]) : registry'[n][i] # t
            /\ registry' # registry
            /\ \A k \in (DOMAIN registry) \cup (DOMAIN registry') :
                 k # FullPath(t.module, n)
                 => (k \in DOMAIN registry /\ k \in DOMAIN registry'
                        /\ registry'[k] = registry[k]))]_vars

C14_Witness ==
    /\ last.op = "register"
    /\ Len(calls) = 2
    /\ calls[1][1] = calls[2][1]
    /\ calls[1][2].module # calls[2][2].module
    /\ registry[calls[2][1]] = <<calls[1][2]>>
    /\ registry[FullPath(calls[2][2].module, calls[2][1])] = <<calls[2][2]>>

\* C15: no short-key entry ever holds two classes of the same module.
C15_NoPhantomDuplicates ==
    \A n \in ClassNames \cap DOMAIN registry :
        \A i, j \in 1..Len(registry[n]) :
            i # j => registry[n][i].module # registry[n][j].module

C15_Witness ==
    /\ Len(calls) = 3
    /\ \A i \in 1..3 : calls[i][1] = "Foo" /\ calls[i][2].module = "app.a"
    /\ calls[3][2] # calls[1][2]
    /\ "Foo" \in DOMAIN registry
    /\ registry["Foo"] = <<calls[3][2]>>

\* C16: once constructed, an error's messages, field name, data and valid
\* data never change, whichever method is called and whether it returns or
\* raises, and every normalized_messages() call on it returns what the
\* call before returned.
C16_ErrorImmutable ==
    [][err # NoError
        => /\ err' = err
           /\ err'.messages = err.messages /\ err'.field_name = err.field_name
           /\ err'.data = err.data /\ err'.valid_data = err.valid_data
           /\ ret'.op = "normalized_messages"
                => /\ ret'.value = normalized_messages(err).value
                   /\ ret.op = "normalized_messages" => ret' = ret]_vars

C16_Witness ==
    /\ err # NoError
    /\ ctor.message = Str("x")
    /\ ret.op = "messages_dict" /\ ret.kind = "TypeError"
    /\ err.messages = List(<<Str("x")>>)

\* C18: every key of the registry maps to a non-empty list, so get_class on
\* a key that is present returns a class, returns a list of two or more, or
\* raises the multiple-classes error, and never indexes an empty list.
C18_EntriesNonEmpty ==
    /\ \A k \in DOMAIN registry :
        /\ Len(registry[k]) >= 1
        /\ \A all \in BOOLEAN :
            LET r == GetClass(registry, k, all)
            IN  \/ r.kind = "class"
                \/ r.kind = "list" /\ Len(r.classes) >= 2
                \/ r.kind = "Ambiguous"
    /\ last.op = "get_class" => last.result.kind # "IndexError"

C18_Witness ==
    /\ last.op = "get_class"
    /\ last.classname \in DOMAIN registry
    /\ last.result.kind = "class"
    /\ \E n \in ClassNames : n \in UsedShortNames /\ n \notin DOMAIN registry

\* C19: register(n, t) touches no key but the short key n and the qualified
\* key of t's module and n: every other key keeps its list, and none is
\* added or removed.
C19_RegisterTouchesTwoKeys ==
    [][LET n == last'.classname
           t == last'.cls
       IN
        RegisterStep
        => \A k \in (DOMAIN registry) \cup (DOMAIN registry') :
             k \notin {n, FullPath(t.module, n)}
             => (k \in DOMAIN registry /\ k \in DOMAIN registry'
                    /\ registry'[k] = registry[k])]_vars

C19_Witness ==
    /\ last.op = "register"
    /\ Len(calls) = 3
    /\ calls[1][1] # calls[3][1]
    /\ calls[2][1] = calls[3][1] /\ calls[2][2].module = calls[3][2].module
    /\ calls[1][1] \in DOMAIN registry
    /\ registry[calls[1][1]] = <<calls[1][2]>>
    /\ calls[3][1] \notin DOMAIN registry

\* C12: merging the normalized_messages() of two errors constructed with
\* distinct field names k1 and k2 gives a mapping that holds both k1 and
\* k2, each with its own error's payload.
C12_AggregateKeepsBothFields ==
    (/\ Len(collected) = 2
     /\ collected[1].field_name # collected[2].field_name
     /\ collected[1].field_name # SCHEMA
     /\ collected[2].field_name # SCHEMA)
    => LET Payload(c) == IF c.message.t = "str" THEN List(<<c.message>>)
                         ELSE c.message
       IN  /\ collected[1].field_name \in DictKeys(aggregate)
           /\ collected[2].field_name \in DictKeys(aggregate)
           /\ aggregate = Dict({<<collected[1].field_name, Payload(collected[1])>>,
                                <<collected[2].field_name, Payload(collected[2])>>})

\* The dict one register call after the other builds, in either order.
SequentialResults ==
    {Register(Register(RegistryBefore, targs[1][1], targs[1][2]), targs[2][1], targs[2][2]),
     Register(Register(RegistryBefore, targs[2][1], targs[2][2]), targs[1][1], targs[1][2])}
Finished(t) == pc[t] \in {"done", "KeyError"}
SameQualifiedKey ==
    FullPath(Cls(1).module, Classname(1)) = FullPath(Cls(2).module, Classname(2))
HoldsClass(classes, c) == \E i \in 1..Len(classes) : classes[i] = c

\* C17: with each register call run under one lock held for the whole call,
\* two calls for the same qualified key never end with one of the two
\* classes missing from the qualified-key entry (the outcome is that of the
\* two calls run one after the other, and neither raises); without the lock,
\* interleaved statement by statement, such a state is reachable (C17_Witness).
C17_LockedRegistrationKeepsBoth ==
    uselock
    => /\ \A t \in Threads : pc[t] # "KeyError"
       /\ \E t \in Threads : pc[t] \in {"start", "done"}
       /\ (\A t \in Threads : Finished(t))
            => /\ registry \in SequentialResults
               /\ SameQualifiedKey
                    => LET q == FullPath(Cls(1).module, Classname(1))
                       IN  /\ q \in DOMAIN registry
                           /\ HoldsClass(registry[q], Cls(1))
                           /\ HoldsClass(registry[q], Cls(2))
                           /\ Len(registry[q]) = 2 + Len(CallsUnder(Cls(1).module, Classname(1)))

C17_Witness ==
    /\ ~uselock
    /\ pc = <<"done", "done">>
    /\ SameQualifiedKey
    /\ Cls(1) # Cls(2)
    /\ LET q == FullPath(Cls(1).module, Classname(1))
       IN  /\ q \in DOMAIN registry
           /\ ~HoldsClass(registry[q], Cls(1)) \/ ~HoldsClass(registry[q], Cls(2))
====
